---- MODULE Spec2Model ----
(***************************************************************************)
(* Model of the conjugation subsystem of tr (internal/translator):         *)
(* GetConjugations with its fetch / extract / generate / merge pipeline,   *)
(* the in-memory cache guarded by cacheMux, and the background saveCache   *)
(* goroutines that mirror the cache to the cache file.                     *)
(*                                                                         *)
(* A Go string is a sequence of bytes.  An ASCII byte is written as the    *)
(* one-character string of its character, any other byte as "xHH".  The    *)
(* accented literals of translator.go are stored double-encoded in the     *)
(* source file and are reproduced here byte for byte.                      *)
(***************************************************************************)
EXTENDS Naturals, Sequences, FiniteSets, TLC

(***************************************************************************)
(* Bounds of the model.                                                    *)
(***************************************************************************)
\* Number of threads that call GetConjugations.
NumThreads == 2
\* Number of GetConjugations calls made in one process lifetime.
MaxCalls == 2
\* Length of the longest word given to the generator alone.
MaxWordLen == 3

(***************************************************************************)
(* Package strings, on byte sequences.                                     *)
(***************************************************************************)
Range(s) == {s[i] : i \in 1..Len(s)}

Drop(s, n) == SubSeq(s, n + 1, Len(s))

HasPrefix(s, p) == Len(s) >= Len(p) /\ SubSeq(s, 1, Len(p)) = p

HasSuffix(s, p) == Len(s) >= Len(p) /\ SubSeq(s, Len(s) - Len(p) + 1, Len(s)) = p

Contains(s, p) == \E i \in 0..(Len(s) - Len(p)) : SubSeq(s, i + 1, i + Len(p)) = p

\* unicode.IsSpace, on the ASCII white space.
IsSpace(b) == b \in {" ", "\t", "\n", "\r"}

RECURSIVE TrimLeft(_)
TrimLeft(s) == IF s # << >> /\ IsSpace(Head(s)) THEN TrimLeft(Tail(s)) ELSE s

RECURSIVE TrimRight(_)
TrimRight(s) ==
  IF s # << >> /\ IsSpace(s[Len(s)]) THEN TrimRight(SubSeq(s, 1, Len(s) - 1)) ELSE s

TrimSpace(s) == TrimRight(TrimLeft(s))

UpperAscii == <<"A", "B", "C", "D", "E", "F", "G", "H", "I", "J", "K", "L", "M",
                "N", "O", "P", "Q", "R", "S", "T", "U", "V", "W", "X", "Y", "Z">>

LowerAscii == <<"a", "b", "c", "d", "e", "f", "g", "h", "i", "j", "k", "l", "m",
                "n", "o", "p", "q", "r", "s", "t", "u", "v", "w", "x", "y", "z">>

\* Second byte of the two-byte runes U+00C0..U+00DE (first byte xC3) that have a
\* lower case, and the second byte of that lower case (the first stays xC3).
UpperLatin1 == <<"x81", "x83", "x89", "x8D", "x91", "x93", "x9A", "x9C">>

LowerLatin1 == <<"xA1", "xA3", "xA9", "xAD", "xB1", "xB3", "xBA", "xBC">>

IndexOf(seq, b) == CHOOSE i \in 1..Len(seq) : seq[i] = b

\* strings.ToLower: unicode.ToLower rune by rune.
RECURSIVE ToLower(_)
ToLower(s) ==
  IF s = << >> THEN << >>
  ELSE IF Head(s) \in Range(UpperAscii)
    THEN <<LowerAscii[IndexOf(UpperAscii, Head(s))]>> \o ToLower(Tail(s))
  ELSE IF Head(s) = "xC3" /\ Len(s) >= 2 /\ s[2] \in Range(UpperLatin1)
    THEN <<"xC3", LowerLatin1[IndexOf(UpperLatin1, s[2])]>> \o ToLower(Drop(s, 2))
  ELSE <<Head(s)>> \o ToLower(Tail(s))

\* strings.ReplaceAll for a non-empty old.
RECURSIVE ReplaceAll(_, _, _)
ReplaceAll(s, old, new) ==
  IF Len(s) < Len(old) THEN s
  ELSE IF HasPrefix(s, old) THEN new \o ReplaceAll(Drop(s, Len(old)), old, new)
  ELSE <<Head(s)>> \o ReplaceAll(Tail(s), old, new)

(***************************************************************************)
(* Conjugation tables: a function from tense keys to functions from person *)
(* keys to conjugated forms.  The empty function is the empty map.         *)
(***************************************************************************)
EmptyTable == << >>

\* len(m) of a Go map.
MapLen(m) == Cardinality(DOMAIN m)

\* The (tense, person) cells of a table.
Cells(tbl) == UNION {{<<tense, person>> : person \in DOMAIN tbl[tense]} : tense \in DOMAIN tbl}

persons == <<<<"y", "o">>, <<"t", "xC3", "x83", "xC2", "xBA">>, <<"xC3", "x83", "xC2", "xA9", "l", "/", "e", "l", "l", "a">>, <<"n", "o", "s", "o", "t", "r", "o", "s">>, <<"v", "o", "s", "o", "t", "r", "o", "s">>, <<"e", "l", "l", "o", "s">>>>

\* The map built by assigning m[a[1]][a[2]] = a[3] for the elements a of
\* assigns in order (a later assignment to a cell overwrites an earlier one).
LastAssign(assigns, tense, person) ==
  LET hits == {i \in 1..Len(assigns) : assigns[i][1] = tense /\ assigns[i][2] = person}
  IN  assigns[CHOOSE i \in hits : \A j \in hits : j <= i][3]

TableOf(assigns) ==
  [tense \in {a[1] : a \in Range(assigns)} |->
     [person \in {a[2] : a \in {b \in Range(assigns) : b[1] = tense}} |->
        LastAssign(assigns, tense, person)]]

(***************************************************************************)
(* The rule-based generator.                                               *)
(***************************************************************************)
getVerbStem(verb) == IF Len(verb) < 3 THEN verb ELSE SubSeq(verb, 1, Len(verb) - 2)

\* One tense map: persons[i] |-> base + suffixes[i].
Forms(base, suffixes) ==
  [person \in Range(persons) |-> base \o suffixes[IndexOf(persons, person)]]

\* Mutant of generateRuleBasedConjugations: the ending of the verb is not
\* tested.
generateForAnyWord(verb) ==
  [tense \in {"future"} |-> Forms(verb, <<<<"xC3", "x83", "xC2", "xA9">>, <<"xC3", "x83", "xC2", "xA1", "s">>, <<"xC3", "x83", "xC2", "xA1">>, <<"e", "m", "o", "s">>, <<"xC3", "x83", "xC2", "xA9", "i", "s">>, <<"xC3", "x83", "xC2", "xA1", "n">>>>)]

generateRuleBasedConjugations(verb) ==
  IF ~HasSuffix(verb, <<"a", "r">>) /\ ~HasSuffix(verb, <<"e", "r">>) /\ ~HasSuffix(verb, <<"i", "r">>)
  THEN EmptyTable
  ELSE
    LET stem == getVerbStem(verb)
        ending == Drop(verb, Len(stem))
        present ==
          IF ending = <<"a", "r">>
            THEN Forms(stem, <<<<"o">>, <<"a", "s">>, <<"a">>, <<"a", "m", "o", "s">>, <<"xC3", "x83", "xC2", "xA1", "i", "s">>, <<"a", "n">>>>)
          ELSE IF ending = <<"e", "r">>
            THEN Forms(stem, <<<<"o">>, <<"e", "s">>, <<"e">>, <<"e", "m", "o", "s">>, <<"xC3", "x83", "xC2", "xA9", "i", "s">>, <<"e", "n">>>>)
          ELSE IF ending = <<"i", "r">>
            THEN Forms(stem, <<<<"o">>, <<"e", "s">>, <<"e">>, <<"i", "m", "o", "s">>, <<"xC3", "x83", "xC2", "xAD", "s">>, <<"e", "n">>>>)
          ELSE << >>
        preterite ==
          IF ending = <<"a", "r">>
            THEN Forms(stem, <<<<"xC3", "x83", "xC2", "xA9">>, <<"a", "s", "t", "e">>, <<"xC3", "x83", "xC2", "xB3">>, <<"a", "m", "o", "s">>, <<"a", "s", "t", "e", "i", "s">>, <<"a", "r", "o", "n">>>>)
          ELSE IF ending \in {<<"e", "r">>, <<"i", "r">>}
            THEN Forms(stem, <<<<"xC3", "x83", "xC2", "xAD">>, <<"i", "s", "t", "e">>, <<"i", "xC3", "x83", "xC2", "xB3">>, <<"i", "m", "o", "s">>, <<"i", "s", "t", "e", "i", "s">>, <<"i", "e", "r", "o", "n">>>>)
          ELSE << >>
        future == Forms(verb, <<<<"xC3", "x83", "xC2", "xA9">>, <<"xC3", "x83", "xC2", "xA1", "s">>, <<"xC3", "x83", "xC2", "xA1">>, <<"e", "m", "o", "s">>, <<"xC3", "x83", "xC2", "xA9", "i", "s">>, <<"xC3", "x83", "xC2", "xA1", "n">>>>)
        conditional == Forms(verb, <<<<"xC3", "x83", "xC2", "xAD", "a">>, <<"xC3", "x83", "xC2", "xAD", "a", "s">>, <<"xC3", "x83", "xC2", "xAD", "a">>, <<"xC3", "x83", "xC2", "xAD", "a", "m", "o", "s">>, <<"xC3", "x83", "xC2", "xAD", "a", "i", "s">>, <<"xC3", "x83", "xC2", "xAD", "a", "n">>>>)
    IN  [tense \in {"present", "preterite", "future", "conditional"} |->
           CASE tense = "present" -> present
             [] tense = "preterite" -> preterite
             [] tense = "future" -> future
             [] tense = "conditional" -> conditional]

(***************************************************************************)
(* Cleaning and validating a scraped cell.                                 *)
(***************************************************************************)
\* regexp `<[^>]*>` replaced by "": the leftmost "<" that has a ">" after it,
\* up to the first such ">", is removed, and so on from there.
RECURSIVE AfterFirst(_, _)
AfterFirst(b, s) == IF Head(s) = b THEN Tail(s) ELSE AfterFirst(b, Tail(s))

RECURSIVE StripTags(_)
StripTags(s) ==
  IF s = << >> THEN << >>
  ELSE IF Head(s) = "<" /\ ">" \in Range(Tail(s)) THEN StripTags(AfterFirst(">", Tail(s)))
  ELSE <<Head(s)>> \o StripTags(Tail(s))

cleanConjugation(text) ==
  LET t1 == StripTags(text)
      t2 == ReplaceAll(t1, <<"&", "n", "b", "s", "p", ";">>, <<" ">>)
      t3 == ReplaceAll(t2, <<"&", "a", "m", "p", ";">>, <<"&">>)
      t4 == ReplaceAll(t3, <<"&", "l", "t", ";">>, <<"<">>)
      t5 == ReplaceAll(t4, <<"&", "g", "t", ";">>, <<">">>)
      t6 == ReplaceAll(t5, <<"&", "#", "8", "2", "0", "3", ";">>, <<>>)
  IN  TrimSpace(t6)

\* The two-byte runes of the character class of validChars, as the source
\* file spells it.
validRunes == {<<"xC3", "x83">>, <<"xC2", "xA1">>, <<"xC2", "xA9">>, <<"xC2", "xAD">>,
               <<"xC2", "xB3">>, <<"xC2", "xBA">>, <<"xC2", "xBC">>, <<"xC2", "xB1">>}

\* validChars.MatchString: ^[a-z...]+$
RECURSIVE OnlyValidRunes(_)
OnlyValidRunes(s) ==
  IF s = << >> THEN TRUE
  ELSE IF Head(s) \in Range(LowerAscii) THEN OnlyValidRunes(Tail(s))
  ELSE IF Len(s) >= 2 /\ SubSeq(s, 1, 2) \in validRunes THEN OnlyValidRunes(Drop(s, 2))
  ELSE FALSE

validCharsMatch(s) == s # << >> /\ OnlyValidRunes(s)

\* Length ceiling of a candidate, in bytes.
MaxConjugationLen == 20
\* Upper end of the length band that needs no stem.
MaxShortLen == 10

isValidConjugation(text, verb) ==
  IF text = << >> \/ Len(text) < 2 \/ Len(text) > MaxConjugationLen THEN FALSE
  ELSE IF Contains(text, <<"h", "t", "t", "p">>) \/ Contains(text, <<"@">>) \/ Contains(text, <<"#">>) THEN FALSE
  ELSE IF ~validCharsMatch(ToLower(text)) THEN FALSE
  ELSE Contains(ToLower(text), ToLower(getVerbStem(verb)))
       \/ (Len(text) >= 2 /\ Len(text) <= MaxShortLen)

\* Mutant of keepConjugation: every cleaned cell is stored.
keepEveryCell(conjugation, verb) == TRUE

\* The test of both extractors that decides whether a cleaned cell is stored.
keepConjugation(conjugation, verb) ==
  conjugation # <<>> /\ conjugation # <<"-">> /\ isValidConjugation(conjugation, verb)

(***************************************************************************)
(* The fetched document: the sequence of its table elements in document    *)
(* order.  A table is [class, rows]: class says whether it carries the     *)
(* class sTe03NLF, rows are its tr elements; a row is the sequence of its  *)
(* cells [th, text], th telling a th from a td.                            *)
(***************************************************************************)
Th(text) == [th |-> TRUE, text |-> text]

Td(text) == [th |-> FALSE, text |-> text]

\* Selection.Text() of a row: the text of its cells, concatenated.
RECURSIVE RowText(_)
RowText(row) == IF row = << >> THEN << >> ELSE Head(row).text \o RowText(Tail(row))

IsTh(cell) == cell.th

IsTd(cell) == ~cell.th

\* Selection.First() of the rows: the empty selection has no cells.
FirstRow(rows) == IF rows = << >> THEN << >> ELSE rows[1]

RECURSIVE Flatten(_)
Flatten(seqs) == IF seqs = << >> THEN << >> ELSE Head(seqs) \o Flatten(Tail(seqs))

\* fmt.Sprintf("tense_%d", i)
TenseLabel(i) ==
  CASE i = 1 -> "tense_1" [] i = 2 -> "tense_2" [] i = 3 -> "tense_3"
    [] i = 4 -> "tense_4" [] i = 5 -> "tense_5" [] OTHER -> "tense_n"

\* The tense of the header cell number i (from 0) of the structured table.
HeaderTense(i, text) ==
  LET tenseText == ToLower(TrimSpace(text))
  IN  IF Contains(tenseText, <<"p", "r", "e", "s", "e", "n", "t">>) THEN "present"
      ELSE IF Contains(tenseText, <<"p", "r", "e", "t", "e", "r", "i", "t", "e">>) THEN "preterite"
      ELSE IF Contains(tenseText, <<"i", "m", "p", "e", "r", "f", "e", "c", "t">>) THEN "imperfect"
      ELSE IF Contains(tenseText, <<"c", "o", "n", "d", "i", "t", "i", "o", "n", "a", "l">>) THEN "conditional"
      ELSE IF Contains(tenseText, <<"f", "u", "t", "u", "r", "e">>) THEN "future"
      ELSE TenseLabel(i)

\* The tense order of the structured table, from its header row.
TenseNames(headerRow) ==
  IF Contains(TrimSpace(RowText(headerRow)), <<"P", "r", "e", "s", "e", "n", "t", "P", "r", "e", "t", "e", "r", "i", "t", "e", "I", "m", "p", "e", "r", "f", "e", "c", "t", "C", "o", "n", "d", "i", "t", "i", "o", "n", "a", "l", "F", "u", "t", "u", "r", "e">>)
  THEN <<"present", "preterite", "imperfect", "conditional", "future">>
  ELSE LET ths == SelectSeq(headerRow, IsTh)
       IN  [k \in 1..(Len(ths) - 1) |-> HeaderTense(k, ths[k + 1].text)]

\* The person of a row of the structured table; << >> for an unknown row.
Pronoun(rowText) ==
  IF HasPrefix(rowText, <<"y", "o">>) THEN <<"y", "o">>
  ELSE IF HasPrefix(rowText, <<"t", "xC3", "x83", "xC2", "xBA">>) THEN <<"t", "xC3", "x83", "xC2", "xBA">>
  ELSE IF HasPrefix(rowText, <<"xC3", "x83", "xC2", "xA9", "l", "/", "e", "l", "l", "a", "/", "U", "d", ".">>) THEN <<"xC3", "x83", "xC2", "xA9", "l", "/", "e", "l", "l", "a">>
  ELSE IF HasPrefix(rowText, <<"n", "o", "s", "o", "t", "r", "o", "s">>) THEN <<"n", "o", "s", "o", "t", "r", "o", "s">>
  ELSE IF HasPrefix(rowText, <<"v", "o", "s", "o", "t", "r", "o", "s">>) THEN <<"v", "o", "s", "o", "t", "r", "o", "s">>
  ELSE IF HasPrefix(rowText, <<"e", "l", "l", "o", "s", "/", "e", "l", "l", "a", "s", "/", "U", "d", "s", ".">>) THEN <<"e", "l", "l", "o", "s">>
  ELSE << >>

\* The assignments conjugations[tense][pronoun] = conjugation that one row of
\* the structured table makes, in cell order.
StructuredRow(row, tenseNames, verb) ==
  LET pronoun == Pronoun(TrimSpace(RowText(row)))
      cells == SelectSeq(row, IsTd)
      cand == [k \in 1..Len(cells) |->
                 <<tenseNames[k], pronoun, cleanConjugation(TrimSpace(cells[k].text))>>]
      Keep(a) == keepConjugation(a[3], verb)
  IN  IF pronoun = << >> \/ Len(cells) # Len(tenseNames) THEN << >>
      ELSE SelectSeq(cand, Keep)

extractFromSpanishDictTable(table, verb) ==
  LET rows == table.rows
      tenseNames == TenseNames(FirstRow(rows))
  IN  TableOf(Flatten([r \in 1..(Len(rows) - 1) |->
                         StructuredRow(rows[r + 1], tenseNames, verb)]))

\* The tense of column cellIndex (from 0) of a generic table; "" past column 4.
ColumnTense(cellIndex) ==
  CASE cellIndex = 0 -> "present" [] cellIndex = 1 -> "preterite"
    [] cellIndex = 2 -> "imperfect" [] cellIndex = 3 -> "conditional"
    [] cellIndex = 4 -> "future" [] OTHER -> ""

\* The assignments one row of a generic table makes; rowIndex counts from 0.
GenericRow(row, rowIndex, headerOffset, verb) ==
  LET personIndex == rowIndex - headerOffset
      cells == SelectSeq(row, IsTd)
      cand == [k \in 1..Len(cells) |->
                 <<ColumnTense(k - 1),
                   IF rowIndex >= headerOffset /\ personIndex < Len(persons)
                     THEN persons[personIndex + 1] ELSE << >>,
                   cleanConjugation(TrimSpace(cells[k].text))>>]
      Keep(a) == keepConjugation(a[3], verb) /\ a[1] # ""
  IN  IF rowIndex < headerOffset \/ personIndex >= Len(persons) THEN << >>
      ELSE SelectSeq(cand, Keep)

extractConjugationsFromTable(table, verb) ==
  IF table.class THEN extractFromSpanishDictTable(table, verb)
  ELSE
    LET rows == table.rows
        firstRow == FirstRow(rows)
        headerOffset ==
          IF SelectSeq(firstRow, IsTh) # << >>
             \/ Contains(ToLower(RowText(firstRow)), <<"p", "r", "e", "s", "e", "n", "t", "e">>)
             \/ Contains(ToLower(RowText(firstRow)), <<"p", "r", "e", "t", "e", "r", "i", "t", "e">>)
          THEN 1 ELSE 0
    IN  TableOf(Flatten([r \in 1..Len(rows) |->
                           GenericRow(rows[r], r - 1, headerOffset, verb)]))

HasClass(table) == table.class

\* The scan of every table of the document: each table of 6 or 7 rows with
\* a non-empty extraction assigns conjugations, and the scan goes on.
RECURSIVE FallbackScan(_, _, _)
FallbackScan(tables, verb, conjugations) ==
  IF tables = << >> THEN conjugations
  ELSE LET table == Head(tables)
           extracted == IF Len(table.rows) = 6 \/ Len(table.rows) = 7
                          THEN extractConjugationsFromTable(table, verb)
                          ELSE EmptyTable
       IN  FallbackScan(Tail(tables), verb,
                        IF MapLen(extracted) > 0 THEN extracted ELSE conjugations)

\* Mutant of parseSpanishDictHTML: only the scan of every table is made.
parseFallbackOnly(doc, verb) == FallbackScan(doc, verb, EmptyTable)

\* The table parseSpanishDictHTML returns for a document that parses.
parseSpanishDictHTML(doc, verb) ==
  LET marked == SelectSeq(doc, HasClass)
      first == IF marked # << >> THEN extractFromSpanishDictTable(marked[1], verb)
               ELSE EmptyTable
  IN  IF MapLen(first) > 0 THEN first
      ELSE FallbackScan(doc, verb, EmptyTable)

(***************************************************************************)
(* The remote source.  A fetch ends in a transport failure, a non-success  *)
(* status, an unreadable body, markup goquery cannot parse, or a document. *)
(***************************************************************************)
DocEmpty == << >>

DocIrregular ==
  <<[class |-> TRUE,
     rows |-> <<<<Th(<<>>), Th(<<"P", "r", "e", "s", "e", "n", "t">>), Th(<<"I", "m", "p", "e", "r", "f", "e", "c", "t">>)>>,
                <<Th(<<"y", "o">>), Td(<<"v", "o", "y">>), Td(<<"i", "b", "a">>)>>,
                <<Th(<<"n", "o", "s", "o", "t", "r", "o", "s">>), Td(<<"-">>), Td(<<>>)>>,
                <<Th(<<"v", "o", "s", "o", "t", "r", "o", "s">>), Td(<<"<", "b", ">", "v", "a", "i", "s", "<", "/", "b", ">">>), Td(<<"i", "b", "a", "i", "s", "&", "n", "b", "s", "p", ";">>)>>>>]>>

DocGeneric ==
  <<[class |-> FALSE,
     rows |-> <<<<Td(<<"s", "o", "y">>)>>, <<Td(<<"e", "r", "e", "s">>)>>, <<Td(<<"e", "s">>)>>,
                <<Td(<<"s", "o", "m", "o", "s">>)>>, <<Td(<<"h", "t", "t", "p", ":", "/", "/", "x">>)>>, <<Td(<<"s", "o", "n">>)>>>>]>>

\* A structured table with a header cell that names none of the five tenses.
DocUnnamed ==
  <<[class |-> TRUE,
     rows |-> <<<<Th(<<>>), Th(<<"S", "u", "b", "j", "u", "n", "c", "t", "i", "v", "e">>)>>,
                <<Th(<<"y", "o">>), Td(<<"v", "a", "y", "a">>)>>>>]>>

Docs == {DocEmpty, DocIrregular, DocGeneric, DocUnnamed}

FetchFailures == {"transport", "status", "body", "parse"}

FetchOutcomes ==
  {[kind |-> k, doc |-> DocEmpty] : k \in FetchFailures}
  \cup {[kind |-> "ok", doc |-> d] : d \in Docs}

\* (conjugations, err) of getConjugationsFromSpanishDict for one outcome of
\* the fetch; the table of a failure is the nil map.
getConjugationsFromSpanishDict(verb, outcome) ==
  IF outcome.kind \in FetchFailures
  THEN [conjugations |-> EmptyTable, err |-> TRUE]
  ELSE [conjugations |-> parseSpanishDictHTML(outcome.doc, verb), err |-> FALSE]

(***************************************************************************)
(* The merge of GetConjugations.                                           *)
(***************************************************************************)
\* Mutant of needsFill: the rule-based form replaces every scraped cell.
needsFillAlways(htmlConjugations, person) == TRUE

\* Whether the rule-based form replaces the scraped cell of a person.
needsFill(htmlConjugations, person) ==
  person \notin DOMAIN htmlConjugations
  \/ htmlConjugations[person] = <<>>
  \/ htmlConjugations[person] = <<"-">>

\* Mutant of fillPersons: the rule-based form is added to the scraped cell.
fillPersonsAppending(htmlConjugations, ruleConjugations) ==
  [person \in DOMAIN htmlConjugations \cup DOMAIN ruleConjugations |->
     IF person \notin DOMAIN ruleConjugations THEN htmlConjugations[person]
     ELSE IF person \notin DOMAIN htmlConjugations THEN ruleConjugations[person]
     ELSE htmlConjugations[person] \o <<"/">> \o ruleConjugations[person]]

\* A tense both tables have: the scraped persons, the missing ones filled in.
fillPersons(htmlConjugations, ruleConjugations) ==
  [person \in DOMAIN htmlConjugations \cup DOMAIN ruleConjugations |->
     IF person \in DOMAIN ruleConjugations /\ needsFill(htmlConjugations, person)
     THEN ruleConjugations[person]
     ELSE htmlConjugations[person]]

\* Mutant of mergedTenses: only the tenses of the rule-based table are kept.
mergedTensesOfRules(conjugations, ruleBasedConjugations) == DOMAIN ruleBasedConjugations

\* The tenses of the merged table.
mergedTenses(conjugations, ruleBasedConjugations) ==
  DOMAIN conjugations \cup DOMAIN ruleBasedConjugations

\* Whether the rule-based table is the result as it is.
useRuleBased(err, conjugations) == err \/ MapLen(conjugations) = 0

\* Mutant of mergeConjugations: the scraped table is the result, as it was
\* before the generator was added.
mergeScrapedOnly(err, conjugations, ruleBasedConjugations) == conjugations

mergeConjugations(err, conjugations, ruleBasedConjugations) ==
  IF useRuleBased(err, conjugations) THEN ruleBasedConjugations
  ELSE [tense \in mergedTenses(conjugations, ruleBasedConjugations) |->
          IF tense \notin DOMAIN ruleBasedConjugations THEN conjugations[tense]
          ELSE IF tense \in DOMAIN conjugations
            THEN fillPersons(conjugations[tense], ruleBasedConjugations[tense])
          ELSE ruleBasedConjugations[tense]]

\* Mutant of returnedErr: the error of the fetch is returned.
returnedErrOfFetch(err) == err

\* The error GetConjugations returns after a fetch that ended with err.
returnedErr(err) == FALSE

\* Mutant of normalize: the verb is used as it is given.
normalizeNothing(verb) == verb

\* strings.ToLower(strings.TrimSpace(verb))
normalize(verb) == ToLower(TrimSpace(verb))

(***************************************************************************)
(* The cache file.  Its content is absent, not JSON (also the empty or     *)
(* partly written file), or a JSON value; an object is the set of its      *)
(* (key, value) members.                                                   *)
(***************************************************************************)
JNull == [type |-> "null", members |-> {}, value |-> << >>]

JString(s) == [type |-> "string", members |-> {}, value |-> s]

JObject(members) == [type |-> "object", members |-> members, value |-> << >>]

FileAbsent == [kind |-> "absent", json |-> JNull]

FileCorrupt == [kind |-> "corrupt", json |-> JNull]

FileOf(json) == [kind |-> "json", json |-> json]

\* A Go map value: the nil map, or the map m.
NilMap == [isNil |-> TRUE, m |-> << >>]

MapOf(m) == [isNil |-> FALSE, m |-> m]

\* json.MarshalIndent of the cache.
marshalPersons(forms) == JObject({<<person, JString(forms[person])>> : person \in DOMAIN forms})

marshalTable(tbl) == JObject({<<tense, marshalPersons(tbl[tense])>> : tense \in DOMAIN tbl})

marshalCache(c) ==
  IF c.isNil THEN JNull
  ELSE JObject({<<verb, marshalTable(c.m[verb])>> : verb \in DOMAIN c.m})

\* json.Unmarshal into map[string]map[string]map[string]string.
Keys(json) == {mem[1] : mem \in json.members}

Member(json, key) == (CHOOSE mem \in json.members : mem[1] = key)[2]

IsPersonsJson(json) ==
  json.type = "object" /\ \A mem \in json.members : mem[2].type = "string"

IsTableJson(json) ==
  json.type = "object" /\ \A mem \in json.members : IsPersonsJson(mem[2])

IsCacheJson(json) ==
  json.type = "null"
  \/ (json.type = "object" /\ \A mem \in json.members : IsTableJson(mem[2]))

unmarshalPersons(json) == [person \in Keys(json) |-> Member(json, person).value]

unmarshalTable(json) == [tense \in Keys(json) |-> unmarshalPersons(Member(json, tense))]

unmarshalCache(json) ==
  IF json.type = "null" THEN NilMap
  ELSE MapOf([verb \in Keys(json) |-> unmarshalTable(Member(json, verb))])

\* Mutant of loadCache: the decoded map is never assigned to t.cache.
loadCacheUnassigned(file) == MapOf(<< >>)

\* Mutant of loadCache: the decoded map is assigned whatever json.Unmarshal
\* returned.
loadCacheUnchecked(file) ==
  IF file.kind = "json" THEN unmarshalCache(file.json) ELSE MapOf(<< >>)

\* The cache of a translator that New constructs over the file: the empty
\* map of New unless the file is read and decoded.
loadCache(file) ==
  IF file.kind = "json" /\ IsCacheJson(file.json) THEN unmarshalCache(file.json)
  ELSE MapOf(<< >>)

\* t.cache[verb], exists
cacheHas(c, verb) == verb \in DOMAIN c.m

\* Mutant of cacheStore: the map is replaced by one that holds the new entry.
cacheStoreAlone(c, verb, conjugations) == MapOf(verb :> conjugations)

\* t.cache[verb] = conjugations, on a map that is not nil.
cacheStore(c, verb, conjugations) ==
  MapOf([k \in DOMAIN c.m \cup {verb} |-> IF k = verb THEN conjugations ELSE c.m[k]])

(***************************************************************************)
(* The process: the threads that call GetConjugations on one translator,   *)
(* and the saveCache goroutines that cacheConjugations starts.             *)
(***************************************************************************)
\* The verbs the callers pass.
RawVerbs == {<<" ", "H", "a", "b", "l", "a", "r">>, <<"i", "r">>, <<"m", "e", "s", "a">>}

\* A cache file that an earlier run has written.
FileWritten == FileOf(marshalCache(MapOf(<<"i", "r">> :> generateRuleBasedConjugations(<<"i", "r">>))))

\* A cache file of JSON that is not a verb -> tense -> person -> form mapping.
FileWrongType == FileOf(JObject({<<<<"i", "r">>, JString(<<"v", "o", "y">>)>>}))

\* The content of the cache file when the process starts.
InitFiles == {FileAbsent, FileCorrupt, FileWrongType, FileOf(JNull), FileWritten}

\* The inputs of the runs with several calling threads.
ThreadVerbs == {<<"i", "r">>, <<"m", "e", "s", "a">>}

ThreadOutcomes == {[kind |-> "transport", doc |-> DocEmpty], [kind |-> "ok", doc |-> DocIrregular]}

ThreadFiles == {FileAbsent, FileOf(JNull), FileWritten}

Threads == 1..NumThreads

\* One saveCache goroutine for every call that stores.
Saves == 1..MaxCalls

Caller(t) == <<"GetConjugations", t>>

Saver(s) == <<"saveCache", s>>

Loader == <<"loadCache", 0>>

NoOne == <<"none", 0>>

\* sync.RWMutex: Lock waits until no one holds the lock in either mode.
canLockBesideReaders(mux) == mux.writer = NoOne

canLock(mux) == mux.writer = NoOne /\ mux.readers = {}

\* sync.RWMutex: RLock waits until no one holds the write lock.
canRLock(mux) == mux.writer = NoOne

VARIABLES
  phase,         \* "new": before New; "loading": in loadCache; "running"; "exited"; "panicked"
  cache,         \* t.cache
  cacheMux,      \* t.cacheMux: the holder of the write lock, the holders of the read lock
  cacheFile,     \* the content of t.cacheFile
  pc,            \* where each thread is in GetConjugations
  verb,          \* the normalized verb of each thread's call
  scraped,       \* what getConjugationsFromSpanishDict returned to each thread
  conjugations,  \* the table each thread has resolved, and returns
  result,        \* whether each thread's call has returned, with which error, from the cache or not
  saves,         \* where each saveCache goroutine is
  calls,         \* the calls of GetConjugations made so far
  mode,          \* what runs the translator: "library", "repl", "conjugate", "translate"
  direction,     \* REPL.direction, or the direction of the one-shot translation
  lastTranslatedVerb,  \* the package variable lastTranslatedVerb
  command,       \* the last input line or command-line argument handled
  trigger,       \* which handler made the last call of GetConjugations, after what
  data,          \* the bytes each saveCache goroutine has marshalled and not yet written
  args,          \* the arguments of a function that is run alone
  ret            \* what that function returned

vars == <<phase, cache, cacheMux, cacheFile, pc, verb, scraped, conjugations, result, saves, calls,
          mode, direction, lastTranslatedVerb, command, trigger, data, args, ret>>

\* The variables of the runs of one function alone.
alone == <<args, ret>>

\* A saveCache goroutine holds no marshalled bytes.
NoData == [type |-> "none", members |-> {}, value |-> << >>]

NoArg == [text |-> << >>, verb |-> << >>, html |-> << >>]

\* The variables of the command line and of the REPL.
front == <<mode, direction, lastTranslatedVerb, command, trigger>>

NoResult == [returned |-> FALSE, err |-> FALSE, cached |-> FALSE]

NotScraped == [conjugations |-> EmptyTable, err |-> FALSE]

\* Before New, over one of the files.
Start(files) ==
  /\ phase = "new"
  /\ cache = MapOf(<< >>)
  /\ cacheMux = [writer |-> NoOne, readers |-> {}]
  /\ cacheFile \in files
  /\ pc = [t \in Threads |-> "idle"]
  /\ verb = [t \in Threads |-> << >>]
  /\ scraped = [t \in Threads |-> NotScraped]
  /\ conjugations = [t \in Threads |-> EmptyTable]
  /\ result = [t \in Threads |-> NoResult]
  /\ saves = [s \in Saves |-> "none"]
  /\ data = [s \in Saves |-> NoData]
  /\ calls = 0
  /\ args = NoArg
  /\ ret = << >>

\* New: the translator is built with an empty map and calls loadCache, which
\* takes the write lock; no other thread has the translator yet.
New ==
  /\ phase = "new"
  /\ canLock(cacheMux)
  /\ phase' = "loading"
  /\ cacheMux' = [cacheMux EXCEPT !.writer = Loader]
  /\ UNCHANGED <<cache, cacheFile, pc, verb, scraped, conjugations, result, saves, data, calls>>
  /\ UNCHANGED front
  /\ UNCHANGED alone

\* loadCache reads and decodes the file, assigns the map when the decoding
\* succeeded, and unlocks; New returns the translator.
LoadCache ==
  /\ phase = "loading"
  /\ phase' = "running"
  /\ cache' = loadCache(cacheFile)
  /\ cacheMux' = [cacheMux EXCEPT !.writer = NoOne]
  /\ UNCHANGED <<cacheFile, pc, verb, scraped, conjugations, result, saves, data, calls>>
  /\ UNCHANGED front
  /\ UNCHANGED alone

\* A thread that is in no call enters GetConjugations(raw): the verb is
\* normalized.
GetConjugations(t, raw) ==
  /\ phase = "running"
  /\ pc[t] \in {"idle", "returned"}
  /\ calls < MaxCalls
  /\ verb' = [verb EXCEPT ![t] = normalize(raw)]
  /\ pc' = [pc EXCEPT ![t] = "getCached"]
  /\ calls' = calls + 1
  /\ scraped' = [scraped EXCEPT ![t] = NotScraped]
  /\ conjugations' = [conjugations EXCEPT ![t] = EmptyTable]
  /\ result' = [result EXCEPT ![t] = NoResult]
  /\ UNCHANGED <<phase, cache, cacheMux, cacheFile, saves, data>>

\* A caller of the package calls GetConjugations with one of the verbs.
Call(t, verbs) ==
  /\ \E raw \in verbs : GetConjugations(t, raw)
  /\ UNCHANGED front
  /\ UNCHANGED alone

\* getCachedConjugations: RLock.
GetRLock(t) ==
  /\ phase = "running"
  /\ pc[t] = "getCached"
  /\ canRLock(cacheMux)
  /\ cacheMux' = [cacheMux EXCEPT !.readers = @ \cup {Caller(t)}]
  /\ pc' = [pc EXCEPT ![t] = "reading"]
  /\ UNCHANGED <<phase, cache, cacheFile, verb, scraped, conjugations, result, saves, data, calls>>
  /\ UNCHANGED front
  /\ UNCHANGED alone

\* Mutant of getCachedConjugations: no entry is ever found.
getCachedNothing(c, v) == NilMap

\* The table getCachedConjugations returns; the nil map when there is none.
getCachedConjugations(c, v) == IF cacheHas(c, v) THEN MapOf(c.m[v]) ELSE NilMap

\* getCachedConjugations reads the map and unlocks; a table that is there
\* is returned to the caller of GetConjugations.
GetRead(t) ==
  /\ phase = "running"
  /\ pc[t] = "reading"
  /\ cacheMux' = [cacheMux EXCEPT !.readers = @ \ {Caller(t)}]
  /\ LET cached == getCachedConjugations(cache, verb[t])
     IN  IF ~cached.isNil
         THEN /\ pc' = [pc EXCEPT ![t] = "returned"]
              /\ conjugations' = [conjugations EXCEPT ![t] = cached.m]
              /\ result' = [result EXCEPT ![t] = [returned |-> TRUE, err |-> FALSE, cached |-> TRUE]]
         ELSE /\ pc' = [pc EXCEPT ![t] = "fetch"]
              /\ UNCHANGED <<conjugations, result>>
  /\ UNCHANGED <<phase, cache, cacheFile, verb, scraped, saves, data, calls>>
  /\ UNCHANGED front
  /\ UNCHANGED alone

\* Mutant of shouldCache: every resolved table is cached.
shouldCacheAlways(tbl) == TRUE

\* if len(conjugations) > 0
shouldCache(tbl) == MapLen(tbl) > 0

\* The fetch, the generator and the merge; an empty table is returned, any
\* other goes to cacheConjugations.
Fetch(t, outcomes) ==
  /\ phase = "running"
  /\ pc[t] = "fetch"
  /\ \E outcome \in outcomes :
       LET got == getConjugationsFromSpanishDict(verb[t], outcome)
           ruleBasedConjugations == generateRuleBasedConjugations(verb[t])
           merged == mergeConjugations(got.err, got.conjugations, ruleBasedConjugations)
       IN  /\ scraped' = [scraped EXCEPT ![t] = got]
           /\ conjugations' = [conjugations EXCEPT ![t] = merged]
           /\ IF shouldCache(merged)
              THEN /\ pc' = [pc EXCEPT ![t] = "cacheConjugations"]
                   /\ UNCHANGED result
              ELSE /\ pc' = [pc EXCEPT ![t] = "returned"]
                   /\ result' = [result EXCEPT ![t] =
                        [returned |-> TRUE, err |-> returnedErr(got.err), cached |-> FALSE]]
  /\ UNCHANGED <<phase, cache, cacheMux, cacheFile, verb, saves, data, calls>>
  /\ UNCHANGED front
  /\ UNCHANGED alone

\* Mutant of deferredUnlock: cacheConjugations returns with the lock held.
deferredUnlockForgotten(mux) == mux

\* defer t.cacheMux.Unlock() of cacheConjugations.
deferredUnlock(mux) == [mux EXCEPT !.writer = NoOne]

\* cacheConjugations: Lock.
PutLock(t) ==
  /\ phase = "running"
  /\ pc[t] = "cacheConjugations"
  /\ canLock(cacheMux)
  /\ cacheMux' = [cacheMux EXCEPT !.writer = Caller(t)]
  /\ pc' = [pc EXCEPT ![t] = "storing"]
  /\ UNCHANGED <<phase, cache, cacheFile, verb, scraped, conjugations, result, saves, data, calls>>
  /\ UNCHANGED front
  /\ UNCHANGED alone

\* The saveCache goroutine that the next go statement starts.
NextSave == CHOOSE s \in Saves : saves[s] = "none" /\ \A r \in Saves : r < s => saves[r] # "none"

\* t.cache[verb] = conjugations and go t.saveCache(), under the write lock.
\* The assignment to a nil map panics: the deferred Unlock runs and the
\* process dies.
PutStore(t) ==
  /\ phase = "running"
  /\ pc[t] = "storing"
  /\ IF cache.isNil
     THEN /\ phase' = "panicked"
          /\ cacheMux' = deferredUnlock(cacheMux)
          /\ UNCHANGED <<cache, saves, data, pc>>
     ELSE /\ cache' = cacheStore(cache, verb[t], conjugations[t])
          /\ saves' = [saves EXCEPT ![NextSave] = "started"]
          /\ pc' = [pc EXCEPT ![t] = "stored"]
          /\ UNCHANGED <<phase, cacheMux, data>>
  /\ UNCHANGED <<cacheFile, verb, scraped, conjugations, result, calls>>
  /\ UNCHANGED front
  /\ UNCHANGED alone

\* The deferred Unlock of cacheConjugations; GetConjugations returns the table.
PutUnlock(t) ==
  /\ phase = "running"
  /\ pc[t] = "stored"
  /\ cacheMux' = deferredUnlock(cacheMux)
  /\ pc' = [pc EXCEPT ![t] = "returned"]
  /\ result' = [result EXCEPT ![t] =
       [returned |-> TRUE, err |-> returnedErr(scraped[t].err), cached |-> FALSE]]
  /\ UNCHANGED <<phase, cache, cacheFile, verb, scraped, conjugations, saves, data, calls>>
  /\ UNCHANGED front
  /\ UNCHANGED alone

\* saveCache: RLock.
SaveRLock(s) ==
  /\ phase = "running"
  /\ saves[s] = "started"
  /\ canRLock(cacheMux)
  /\ cacheMux' = [cacheMux EXCEPT !.readers = @ \cup {Saver(s)}]
  /\ saves' = [saves EXCEPT ![s] = "locked"]
  /\ UNCHANGED <<phase, cache, cacheFile, pc, verb, scraped, conjugations, result, calls, data>>
  /\ UNCHANGED front
  /\ UNCHANGED alone

\* MkdirAll and json.MarshalIndent(t.cache), under the read lock: the bytes
\* of the cache as it is now; or MkdirAll fails and saveCache returns.
SaveMarshal(s) ==
  /\ phase = "running"
  /\ saves[s] = "locked"
  /\ \/ /\ data' = [data EXCEPT ![s] = marshalCache(cache)]
        /\ saves' = [saves EXCEPT ![s] = "marshalled"]
     \/ /\ saves' = [saves EXCEPT ![s] = "failed"]
        /\ UNCHANGED data
  /\ UNCHANGED <<phase, cache, cacheMux, cacheFile, pc, verb, scraped, conjugations, result, calls>>
  /\ UNCHANGED front
  /\ UNCHANGED alone

\* os.WriteFile(t.cacheFile, data), still under the read lock.  The file
\* gets the bytes; or the open fails and the file is as it was; or the
\* write fails and leaves a part of the bytes.
SaveWrite(s) ==
  /\ phase = "running"
  /\ saves[s] = "marshalled"
  /\ \/ /\ cacheFile' = FileOf(data[s])
        /\ saves' = [saves EXCEPT ![s] = "written"]
     \/ /\ UNCHANGED cacheFile
        /\ saves' = [saves EXCEPT ![s] = "failed"]
     \/ /\ cacheFile' = FileCorrupt
        /\ saves' = [saves EXCEPT ![s] = "failed"]
  /\ data' = [data EXCEPT ![s] = NoData]
  /\ UNCHANGED <<phase, cache, cacheMux, pc, verb, scraped, conjugations, result, calls>>
  /\ UNCHANGED front
  /\ UNCHANGED alone

\* The deferred RUnlock of saveCache.
SaveRUnlock(s) ==
  /\ phase = "running"
  /\ saves[s] \in {"written", "failed"}
  /\ cacheMux' = [cacheMux EXCEPT !.readers = @ \ {Saver(s)}]
  /\ saves' = [saves EXCEPT ![s] = IF saves[s] = "written" THEN "saved" ELSE "gaveUp"]
  /\ UNCHANGED <<phase, cache, cacheFile, pc, verb, scraped, conjugations, result, calls, data>>
  /\ UNCHANGED front
  /\ UNCHANGED alone

\* The process ends: main returns after a one-shot command, or the REPL's
\* shutdown calls os.Exit(0).  Goroutines still running end with it.
Exit ==
  /\ phase = "running"
  /\ \A t \in Threads : pc[t] \in {"idle", "returned"}
  /\ phase' = "exited"
  /\ UNCHANGED <<cache, cacheMux, cacheFile, pc, verb, scraped, conjugations, result, saves, data, calls>>
  /\ UNCHANGED front
  /\ UNCHANGED alone

\* No handler of the command line or of the REPL has called GetConjugations.
NoTrigger == [by |-> "none", from |-> "", isVerb |-> FALSE, verb |-> << >>]

\* The translator is used as a package: no command line, no REPL.
Library ==
  /\ mode = "library"
  /\ direction = "es2en"
  /\ lastTranslatedVerb = << >>
  /\ command = << >>
  /\ trigger = NoTrigger

\* Threads that call GetConjugations of one translator at the same time.
Init == Start(ThreadFiles) /\ Library

Next ==
  \/ New
  \/ LoadCache
  \/ \E t \in Threads : Call(t, ThreadVerbs)
  \/ \E t \in Threads : GetRLock(t)
  \/ \E t \in Threads : GetRead(t)
  \/ \E t \in Threads : Fetch(t, ThreadOutcomes)
  \/ \E t \in Threads : PutLock(t)
  \/ \E t \in Threads : PutStore(t)
  \/ \E t \in Threads : PutUnlock(t)
  \/ \E s \in Saves : SaveRLock(s)
  \/ \E s \in Saves : SaveMarshal(s)
  \/ \E s \in Saves : SaveWrite(s)
  \/ \E s \in Saves : SaveRUnlock(s)
  \/ Exit

Spec == Init /\ [][Next]_vars

\* The Go scheduler runs every goroutine that can take a step: a caller in
\* GetConjugations and a saveCache goroutine are not left waiting for ever
\* while their next step stays possible; the fetch returns (the HTTP client
\* has a timeout).  Nothing makes a caller call, or the process exit.
Fairness ==
  /\ WF_vars(New)
  /\ WF_vars(LoadCache)
  /\ \A t \in Threads :
       /\ WF_vars(GetRLock(t))
       /\ WF_vars(GetRead(t))
       /\ WF_vars(Fetch(t, ThreadOutcomes))
       /\ WF_vars(PutLock(t))
       /\ WF_vars(PutStore(t))
       /\ WF_vars(PutUnlock(t))
  /\ \A s \in Saves :
       /\ WF_vars(SaveRLock(s))
       /\ WF_vars(SaveMarshal(s))
       /\ WF_vars(SaveWrite(s))
       /\ WF_vars(SaveRUnlock(s))

SpecLive == Spec /\ Fairness

\* The command line and the REPL: one thread calls GetConjugations, with
\* any of the verbs, files and answers of the remote source.
InitMain == Start(InitFiles) /\ Library

NextMain ==
  \/ New
  \/ LoadCache
  \/ Call(1, RawVerbs)
  \/ GetRLock(1)
  \/ GetRead(1)
  \/ Fetch(1, FetchOutcomes)
  \/ PutLock(1)
  \/ PutStore(1)
  \/ PutUnlock(1)
  \/ \E s \in Saves : SaveRLock(s)
  \/ \E s \in Saves : SaveMarshal(s)
  \/ \E s \in Saves : SaveWrite(s)
  \/ \E s \in Saves : SaveRUnlock(s)
  \/ Exit

SpecMain == InitMain /\ [][NextMain]_vars

\* The generator alone, applied to every word of up to MaxWordLen letters.
Alphabet == {"a", "e", "i", "r", "l"}

Words == UNION {[1..n -> Alphabet] : n \in 0..MaxWordLen}

InitGen ==
  /\ phase = "running"
  /\ cache = MapOf(<< >>)
  /\ cacheMux = [writer |-> NoOne, readers |-> {}]
  /\ cacheFile = FileAbsent
  /\ pc = [t \in Threads |-> IF t = 1 THEN "generate" ELSE "idle"]
  /\ \E word \in Words : verb = [t \in Threads |-> IF t = 1 THEN word ELSE << >>]
  /\ scraped = [t \in Threads |-> NotScraped]
  /\ conjugations = [t \in Threads |-> EmptyTable]
  /\ result = [t \in Threads |-> NoResult]
  /\ saves = [s \in Saves |-> "none"]
  /\ data = [s \in Saves |-> NoData]
  /\ calls = 0
  /\ args = NoArg
  /\ ret = << >>
  /\ Library

\* ruleBasedConjugations := t.generateRuleBasedConjugations(verb)
Generate(t) ==
  /\ pc[t] = "generate"
  /\ conjugations' = [conjugations EXCEPT ![t] = generateRuleBasedConjugations(verb[t])]
  /\ pc' = [pc EXCEPT ![t] = "generated"]
  /\ UNCHANGED <<phase, cache, cacheMux, cacheFile, verb, scraped, result, saves, data, calls>>
  /\ UNCHANGED front
  /\ UNCHANGED alone

NextGen == Generate(1)

SpecGen == InitGen /\ [][NextGen]_vars

\* One thread at the start of a function that is run alone, given its
\* arguments; nothing else of the translator is in use.
Alone(at, given) ==
  /\ phase = "running"
  /\ cache = MapOf(<< >>)
  /\ cacheMux = [writer |-> NoOne, readers |-> {}]
  /\ cacheFile = FileAbsent
  /\ pc = [t \in Threads |-> IF t = 1 THEN at ELSE "idle"]
  /\ verb = [t \in Threads |-> << >>]
  /\ scraped = [t \in Threads |-> NotScraped]
  /\ conjugations = [t \in Threads |-> EmptyTable]
  /\ result = [t \in Threads |-> NoResult]
  /\ saves = [s \in Saves |-> "none"]
  /\ data = [s \in Saves |-> NoData]
  /\ calls = 0
  /\ args \in given
  /\ ret = << >>
  /\ Library

\* What the alone steps leave as it is.
translatorUnchanged ==
  UNCHANGED <<phase, cache, cacheMux, cacheFile, verb, scraped, conjugations, result,
              saves, data, calls, args>>

(***************************************************************************)
(* parseSpanishDictHTML alone, over the documents of at most MaxTables     *)
(* tables.                                                                 *)
(***************************************************************************)
MaxTables == 2

\* The structured table of DocIrregular.
TMarked == DocIrregular[1]

\* A structured table no cell of which is kept.
TMarkedEmpty ==
  [class |-> TRUE,
   rows |-> <<<<Th(<<>>), Th(<<"P", "r", "e", "s", "e", "n", "t">>)>>,
              <<Th(<<"y", "o">>), Td(<<"-">>)>>>>]

\* The table of six rows of DocGeneric.
TGeneric == DocGeneric[1]

\* A table of seven rows, the first of which is a header.
TGenericHeaded ==
  [class |-> FALSE,
   rows |-> <<<<Th(<<"P", "r", "e", "s", "e", "n", "t", "e">>)>>, <<Td(<<"v", "o", "y">>)>>, <<Td(<<"v", "a", "s">>)>>, <<Td(<<"v", "a">>)>>,
              <<Td(<<"v", "a", "m", "o", "s">>)>>, <<Td(<<"v", "a", "i", "s">>)>>, <<Td(<<"v", "a", "n">>)>>>>]

\* A table of six rows no cell of which is kept.
TGenericEmpty ==
  [class |-> FALSE,
   rows |-> <<<<Td(<<"-">>)>>, <<Td(<<>>)>>, <<Td(<<"1">>)>>, <<Td(<<"-">>)>>, <<Td(<<"#">>)>>, <<Td(<<>>)>>>>]

\* A table of five rows.
TSmall ==
  [class |-> FALSE,
   rows |-> <<<<Td(<<"d", "o", "y">>)>>, <<Td(<<"d", "a", "s">>)>>, <<Td(<<"d", "a">>)>>, <<Td(<<"d", "a", "m", "o", "s">>)>>, <<Td(<<"d", "a", "n">>)>>>>]

ParseTables == {TMarked, TMarkedEmpty, TGeneric, TGenericHeaded, TGenericEmpty, TSmall}

ParseDocs == UNION {[1..n -> ParseTables] : n \in 0..MaxTables}

ParseVerbs == {<<"i", "r">>, <<"d", "a", "r">>}

ParseArgs == {[text |-> << >>, verb |-> v, html |-> d] : v \in ParseVerbs, d \in ParseDocs}

InitParse == Alone("parse", ParseArgs)

\* conjugations, err := t.parseSpanishDictHTML(html, verb), the document
\* being one goquery parses: err is nil.
Parse(t) ==
  /\ pc[t] = "parse"
  /\ ret' = parseSpanishDictHTML(args.html, args.verb)
  /\ pc' = [pc EXCEPT ![t] = "parsed"]
  /\ translatorUnchanged
  /\ UNCHANGED front

NextParse == Parse(1)

SpecParse == InitParse /\ [][NextParse]_vars

(***************************************************************************)
(* isValidConjugation alone, over the candidates of at most                *)
(* MaxCandidateRunes characters and some longer ones.                      *)
(***************************************************************************)
MaxCandidateRunes == 2

\* Characters of a candidate, each as its bytes.
CandidateRunes == {<<"a">>, <<"F">>, <<"#">>, <<"@">>, <<"1">>, <<"xC3", "xA1">>, <<"xC3", "x91">>, <<"xC2", "xA1">>}

ShortCandidates ==
  {Flatten(runes) : runes \in UNION {[1..n -> CandidateRunes] : n \in 0..MaxCandidateRunes}}

LongCandidates ==
  {<<"h", "t", "t", "p", ":", "/", "/", "x">>, <<"#", "t", "a", "g">>, <<"c", "a", "m", "i", "n", "a", "m", "o", "s">>, <<"f", "u", "i">>, <<"a", "b", "c", "d", "e", "f", "g", "h", "i", "j", "k", "l", "m", "n", "o", "p", "q", "r", "s", "t", "u", "v", "w", "x", "y">>,
   <<"c", "a", "m", "i", "n", "a", "r", "e", "m", "o", "s", "m", "u", "c", "h", "o", "m", "a", "s">>, <<"i", "r", "e", "m", "o", "s", "m", "u", "c", "h", "o", "m", "a", "s">>}

ValidVerbs == {<<"c", "a", "m", "i", "n", "a", "r">>, <<"i", "r">>}

ValidArgs ==
  {[text |-> c, verb |-> v, html |-> << >>] :
     c \in ShortCandidates \cup LongCandidates, v \in ValidVerbs}

InitValid == Alone("validate", ValidArgs)

\* t.isValidConjugation(conjugation, verb)
Validate(t) ==
  /\ pc[t] = "validate"
  /\ ret' = isValidConjugation(args.text, args.verb)
  /\ pc' = [pc EXCEPT ![t] = "validated"]
  /\ translatorUnchanged
  /\ UNCHANGED front

NextValid == Validate(1)

SpecValid == InitValid /\ [][NextValid]_vars

(***************************************************************************)
(* The command line (cmd/tr) and the REPL (internal/repl): one thread, the *)
(* handlers of which call Translate and GetConjugations.                   *)
(***************************************************************************)
\* The thread of main.
Main == 1

\* determineDirection and getLanguages: the source language.
fromLang(dir) == IF dir = "en2es" THEN "en" ELSE "es"

\* toggleDirection
toggleDirection(dir) == IF dir = "es2en" THEN "en2es" ELSE "es2en"

\* Mutant of isLikelySpanishVerb: every word is taken for a verb.
isLikelySpanishVerbAlways(word) == TRUE

isLikelySpanishVerb(word) ==
  LET w == ToLower(word)
  IN  HasSuffix(w, <<"a", "r">>) \/ HasSuffix(w, <<"e", "r">>) \/ HasSuffix(w, <<"i", "r">>)

\* Translate(text, from, to), when the translation service answers (ok) or
\* not: the error, and IsVerb of the result.
Translate(text, from, ok) ==
  [err |-> ~ok \/ TrimSpace(text) = << >>,
   isVerb |-> from = "es" /\ isLikelySpanishVerb(TrimSpace(text))]

\* The handler calls GetConjugations(raw).
Lookup(by, from, isVerb, raw) ==
  /\ GetConjugations(Main, raw)
  /\ trigger' = [by |-> by, from |-> from, isVerb |-> isVerb, verb |-> raw]

\* The handler returns without a call of GetConjugations.
NoLookup ==
  UNCHANGED <<phase, cache, cacheMux, cacheFile, pc, verb, scraped, conjugations, result,
              saves, data, calls, trigger>>

\* shutdown, and the error exits of main: os.Exit.
shutdown ==
  /\ phase' = "exited"
  /\ UNCHANGED <<cache, cacheMux, cacheFile, pc, verb, scraped, conjugations, result,
                 saves, data, calls, trigger>>

\* runConjugate: `tr conjugate <arg>`.
runConjugate(arg) ==
  /\ mode = "conjugate"
  /\ phase = "running"
  /\ pc[Main] = "idle"
  /\ command' = arg
  /\ Lookup("runConjugate", "", FALSE, arg)
  /\ UNCHANGED <<mode, direction, lastTranslatedVerb>>
  /\ UNCHANGED alone

\* runTranslate: `tr [-d direction] <text>`.
runTranslate(text, ok) ==
  /\ mode = "translate"
  /\ phase = "running"
  /\ pc[Main] = "idle"
  /\ command = << >>
  /\ command' = text
  /\ LET from == fromLang(direction)
         translated == Translate(text, from, ok)
     IN  IF translated.err THEN shutdown
         ELSE IF from = "es" /\ translated.isVerb
           THEN Lookup("runTranslate", from, translated.isVerb, text)
         ELSE NoLookup
  /\ UNCHANGED <<mode, direction, lastTranslatedVerb>>
  /\ UNCHANGED alone

\* expandConjugations(named)
expandConjugations(named) ==
  LET expanded == IF named = << >> THEN lastTranslatedVerb ELSE named
  IN  IF expanded = << >> THEN NoLookup
      ELSE Lookup("expandConjugations", "", FALSE, expanded)

\* The REPL reads a line that is not blank and processInput handles it.
processInput(line, ok) ==
  /\ mode = "repl"
  /\ phase = "running"
  /\ pc[Main] \in {"idle", "returned"}
  /\ TrimSpace(line) # << >>
  /\ command' = line
  /\ UNCHANGED mode
  /\ UNCHANGED alone
  /\ LET input == TrimSpace(line)
         lower == ToLower(input)
         from == fromLang(direction)
         translated == Translate(input, from, ok)
     IN  IF HasPrefix(lower, <<"e", "x", "p", "a", "n", "d", " ">>)
           THEN /\ expandConjugations(TrimSpace(Drop(input, 7)))
                /\ UNCHANGED <<direction, lastTranslatedVerb>>
         ELSE IF lower \in {<<"e", "x", "i", "t">>, <<"q", "u", "i", "t">>, <<"q">>}
           THEN /\ shutdown
                /\ UNCHANGED <<direction, lastTranslatedVerb>>
         ELSE IF lower \in {<<"t", "o", "g", "g", "l", "e">>, <<"t">>}
           THEN /\ direction' = toggleDirection(direction)
                /\ NoLookup
                /\ UNCHANGED lastTranslatedVerb
         ELSE IF lower \in {<<"h", "e", "l", "p">>, <<"h">>, <<"c", "l", "e", "a", "r">>, <<"c", "l", "s">>, <<"c", "o", "n", "f", "i", "g">>, <<"t", "e", "n", "s", "e", "s">>}
           THEN /\ NoLookup
                /\ UNCHANGED <<direction, lastTranslatedVerb>>
         ELSE IF translated.err
           THEN /\ NoLookup
                /\ UNCHANGED <<direction, lastTranslatedVerb>>
         ELSE IF from = "es" /\ translated.isVerb
           THEN /\ lastTranslatedVerb' = input
                /\ Lookup("processInput", from, translated.isVerb, input)
                /\ UNCHANGED direction
         ELSE /\ NoLookup
              /\ UNCHANGED <<direction, lastTranslatedVerb>>

\* What the user gives: the subcommand and its argument, the direction of
\* the flag or of the configuration, the lines typed in the REPL.
Modes == {"repl", "conjugate", "translate"}

Directions == {"es2en", "en2es", ""}

ConjugateArgs == {<<" ", "H", "a", "b", "l", "a", "r">>, <<"m", "e", "s", "a">>}

TranslateTexts == {<<"i", "r">>, <<"m", "e", "s", "a">>}

ReplLines == {<<"H", "a", "b", "l", "a", "r">>, <<"m", "e", "s", "a">>, <<"e", "x", "p", "a", "n", "d", " ", "h", "a", "b", "l", "a", "r">>, <<"e", "x", "p", "a", "n", "d">>, <<"e", "x", "p", "a", "n", "d", " ">>, <<"t">>, <<"q">>}

FrontFiles == {FileAbsent}

InitFront ==
  /\ Start(FrontFiles)
  /\ mode \in Modes
  /\ direction \in Directions
  /\ lastTranslatedVerb = << >>
  /\ command = << >>
  /\ trigger = NoTrigger

NextFront ==
  \/ New
  \/ LoadCache
  \/ \E arg \in ConjugateArgs : runConjugate(arg)
  \/ \E text \in TranslateTexts, ok \in BOOLEAN : runTranslate(text, ok)
  \/ \E line \in ReplLines, ok \in BOOLEAN : processInput(line, ok)
  \/ GetRLock(Main)
  \/ GetRead(Main)
  \/ Fetch(Main, ThreadOutcomes)
  \/ PutLock(Main)
  \/ PutStore(Main)
  \/ PutUnlock(Main)
  \/ \E s \in Saves : SaveRLock(s)
  \/ \E s \in Saves : SaveMarshal(s)
  \/ \E s \in Saves : SaveWrite(s)
  \/ \E s \in Saves : SaveRUnlock(s)
  \/ Exit

SpecFront == InitFront /\ [][NextFront]_vars

(***************************************************************************)
(* Properties.                                                             *)
(***************************************************************************)
\* The thread has resolved a table on a cache miss: the merge has run.
Resolved(t) ==
  \/ pc[t] \in {"cacheConjugations", "storing", "stored"}
  \/ pc[t] = "returned" /\ ~result[t].cached

\* The thread has returned from a call that stored its table.
Stored(t) == pc[t] = "returned" /\ ~result[t].cached /\ MapLen(conjugations[t]) > 0

Placeholders == {<<>>, <<"-">>}

\* C1: GetConjugations never returns an error, and after a fetch that failed
\* the table it returns is the generator's table for the normalized verb.
C1_NoErrorReturned ==
  \A t \in Threads :
    result[t].returned =>
      /\ result[t].err = FALSE
      /\ (~result[t].cached /\ scraped[t].err) =>
           conjugations[t] = generateRuleBasedConjugations(verb[t])

\* A call has returned a non-empty table after a fetch that failed.
C1_Witness ==
  \E t \in Threads :
    /\ result[t].returned /\ ~result[t].cached
    /\ scraped[t].err
    /\ MapLen(conjugations[t]) > 0

\* C2: when the scrape failed or extracted nothing, the table resolved on a
\* cache miss is the generated table, tense for tense and form for form.
C2_MergeFallback ==
  \A t \in Threads :
    (Resolved(t) /\ (scraped[t].err \/ MapLen(scraped[t].conjugations) = 0)) =>
      /\ DOMAIN conjugations[t] = DOMAIN generateRuleBasedConjugations(verb[t])
      /\ \A tense \in DOMAIN conjugations[t] :
           conjugations[t][tense] = generateRuleBasedConjugations(verb[t])[tense]

\* The scrape succeeded, extracted nothing, and the generator's table of a
\* conjugable verb has been resolved.
C2_Witness ==
  \E t \in Threads :
    /\ Resolved(t)
    /\ ~scraped[t].err
    /\ MapLen(scraped[t].conjugations) = 0
    /\ MapLen(conjugations[t]) > 0

\* C3: every cell of the extracted table whose value is neither empty nor
\* "-" is in the merged table with the same value.
C3_MergeNonDestructive ==
  \A t \in Threads :
    Resolved(t) =>
      \A cell \in Cells(scraped[t].conjugations) :
        scraped[t].conjugations[cell[1]][cell[2]] \notin Placeholders =>
          /\ cell \in Cells(conjugations[t])
          /\ conjugations[t][cell[1]][cell[2]] = scraped[t].conjugations[cell[1]][cell[2]]

\* A merge has run over a cell that both tables hold with different values.
C3_Witness ==
  \E t \in Threads :
    /\ Resolved(t)
    /\ \E cell \in Cells(scraped[t].conjugations) \cap Cells(generateRuleBasedConjugations(verb[t])) :
         scraped[t].conjugations[cell[1]][cell[2]]
           # generateRuleBasedConjugations(verb[t])[cell[1]][cell[2]]

\* C4: when the extraction is not empty, the cells of the merged table are
\* the cells of the extracted table and those of the generated table, a cell
\* only the generated table has keeps the generated value, and every tense
\* of either table is a tense of the merged table.
C4_MergeAdditive ==
  \A t \in Threads :
    (Resolved(t) /\ MapLen(scraped[t].conjugations) > 0) =>
      LET extracted == scraped[t].conjugations
          generated == generateRuleBasedConjugations(verb[t])
      IN  /\ Cells(conjugations[t]) = Cells(extracted) \cup Cells(generated)
          /\ DOMAIN conjugations[t] = DOMAIN extracted \cup DOMAIN generated
          /\ \A cell \in Cells(generated) \ Cells(extracted) :
               conjugations[t][cell[1]][cell[2]] = generated[cell[1]][cell[2]]

\* A merge has run over a cell only the extraction has and a cell only the
\* generator has.
C4_Witness ==
  \E t \in Threads :
    /\ Resolved(t)
    /\ Cells(scraped[t].conjugations) \ Cells(generateRuleBasedConjugations(verb[t])) # {}
    /\ Cells(generateRuleBasedConjugations(verb[t])) \ Cells(scraped[t].conjugations) # {}

NoPlaceholder(tbl) == \A cell \in Cells(tbl) : tbl[cell[1]][cell[2]] \notin Placeholders

\* C5: no table that the pipeline resolves, and no table in the cache, holds
\* the empty string or "-" for a (tense, person) pair that is present.
C5_NoStoredPlaceholder ==
  /\ \A t \in Threads : Resolved(t) => NoPlaceholder(conjugations[t])
  /\ \A v \in DOMAIN cache.m : NoPlaceholder(cache.m[v])

\* A table merged from an extraction that skipped cells of the document is
\* in the cache, and a pair the document gave as a placeholder is absent.
C5_Witness ==
  \E v \in DOMAIN cache.m :
    /\ "imperfect" \in DOMAIN cache.m[v]
    /\ <<"y", "o">> \in DOMAIN cache.m[v]["imperfect"]
    /\ <<"n", "o", "s", "o", "t", "r", "o", "s">> \notin DOMAIN cache.m[v]["imperfect"]

Quiescent == \A s \in Saves : saves[s] \in {"none", "saved", "gaveUp"}

\* C7: after the put of a table for a verb, the lookup of the verb returns
\* that table; and once every saveCache goroutine has ended and none has
\* failed, a translator constructed over the file has the same cache.
C7_CacheRoundTrip ==
  /\ \A t \in Threads :
       (pc[t] = "stored" \/ Stored(t)) =>
         getCachedConjugations(cache, verb[t]) = MapOf(conjugations[t])
  /\ (Quiescent /\ (\E s \in Saves : saves[s] = "saved")
        /\ \A s \in Saves : saves[s] # "gaveUp") =>
       loadCache(cacheFile) = cache

\* Two puts have been made and their saveCache goroutines have written the file.
C7_Witness ==
  /\ Quiescent
  /\ \A s \in Saves : saves[s] = "saved"
  /\ \E t \in Threads : Stored(t)
  /\ MapLen(cache.m) >= 2

\* C8: when the process has ended, every entry of the cache is in the file.
C8_FlushedAtExit ==
  phase = "exited" =>
    \A v \in DOMAIN cache.m :
      /\ cacheHas(loadCache(cacheFile), v)
      /\ loadCache(cacheFile).m[v] = cache.m[v]

\* C9: no thread is at the Lock of cacheConjugations while a saveCache
\* goroutine holds the read lock for its write.
C9_PutNeverWaits ==
  \A t \in Threads :
    pc[t] = "cacheConjugations" => \A s \in Saves : saves[s] # "locked"

\* C10: two threads that have stored tables for two verbs both find their
\* verb in the cache, and a put changes no entry of another verb.
C10_NoLostUpdate ==
  /\ [](\A t \in Threads : Stored(t) => cacheHas(cache, verb[t]))
  /\ [][\A t \in Threads :
          (pc[t] = "storing" /\ pc'[t] = "stored") =>
            /\ cacheHas(cache', verb[t])
            /\ cache'.m[verb[t]] = conjugations[t]
            /\ \A v \in DOMAIN cache.m \ {verb[t]} :
                 cacheHas(cache', v) /\ cache'.m[v] = cache.m[v]]_vars

\* Two threads have stored tables for two verbs and each lookup returns the
\* table that was put.
C10_Witness ==
  \E t1, t2 \in Threads :
    /\ Stored(t1) /\ Stored(t2)
    /\ verb[t1] # verb[t2]
    /\ getCachedConjugations(cache, verb[t1]) = MapOf(conjugations[t1])
    /\ getCachedConjugations(cache, verb[t2]) = MapOf(conjugations[t2])

\* The threads and goroutines that are at a statement that writes t.cache,
\* and those at a statement that reads it, while the process lives.
Writing ==
  IF phase = "loading" THEN {Loader}
  ELSE IF phase = "running" THEN {Caller(t) : t \in {u \in Threads : pc[u] \in {"storing", "stored"}}}
  ELSE {}

Reading ==
  IF phase # "running" THEN {}
  ELSE {Caller(t) : t \in {u \in Threads : pc[u] = "reading"}}
       \cup {Saver(s) : s \in {r \in Saves : saves[r] \in {"locked", "marshalled", "written", "failed"}}}

\* C11: at most one thread is writing the cache map, no thread reads it
\* while one writes, every writer holds the write lock and every reader the
\* read lock, and the map changes only in a step of the holder of the write
\* lock.
C11_LockDiscipline ==
  /\ [](/\ Cardinality(Writing) <= 1
        /\ Writing # {} => Reading = {}
        /\ Writing \subseteq {cacheMux.writer}
        /\ Reading \subseteq cacheMux.readers)
  /\ [][cache' # cache => (cacheMux.writer # NoOne /\ cacheMux.readers = {})]_vars

\* getCachedConjugations of one thread and a saveCache goroutine read the
\* map at the same time, after the put of another thread.
C11_Witness ==
  /\ \E t \in Threads : Caller(t) \in Reading
  /\ \E s \in Saves : Saver(s) \in Reading
  /\ \E t \in Threads : Stored(t)

\* C12: loadCache never fails; over a file that is missing, unreadable or
\* not the JSON of a verb -> table mapping it leaves the empty cache, and
\* over the JSON of a mapping the cache holds exactly what the file holds.
C12_LoadDegradation ==
  [][phase = "loading" =>
       /\ phase' = "running"
       /\ IF cacheFile.kind = "json" /\ IsCacheJson(cacheFile.json)
          THEN marshalCache(cache') = cacheFile.json
          ELSE cache' = MapOf(<< >>)]_vars

\* A translator has been constructed over a file of JSON of another type,
\* with an empty cache.
C12_Witness ==
  /\ phase = "running"
  /\ calls = 0
  /\ cacheFile.kind = "json" /\ ~IsCacheJson(cacheFile.json)
  /\ cache = MapOf(<< >>)

\* C13: a call that resolves an empty table returns it without a put, and
\* leaves the cache, the file and the saveCache goroutines as they are, so
\* that the verb is still not in the cache; a call that resolves any other
\* table goes to cacheConjugations and its entry is in the cache when it
\* has returned; no entry with an empty table is ever created.
C13_OnlyNonEmptyCached ==
  /\ [](\A t \in Threads :
          /\ (pc[t] = "returned" /\ ~result[t].cached /\ MapLen(conjugations[t]) = 0) =>
               ~cacheHas(cache, verb[t])
          /\ Stored(t) =>
               (cacheHas(cache, verb[t]) /\ cache.m[verb[t]] = conjugations[t]))
  /\ [][/\ \A t \in Threads :
            (pc[t] = "fetch" /\ pc'[t] # "fetch") =>
              IF MapLen(conjugations'[t]) > 0
              THEN pc'[t] = "cacheConjugations"
              ELSE pc'[t] = "returned" /\ UNCHANGED <<cache, cacheFile, saves>>
        /\ phase = "running" =>
             \A v \in DOMAIN cache'.m \ DOMAIN cache.m : MapLen(cache'.m[v]) > 0]_vars

\* A call whose scrape succeeded and extracted nothing has returned the
\* empty table, and the cache has no entry for its verb.
C13_Witness ==
  \E t \in Threads :
    /\ pc[t] = "returned" /\ ~result[t].cached
    /\ ~scraped[t].err
    /\ MapLen(conjugations[t]) = 0
    /\ ~cacheHas(cache, verb[t])

\* C14: once the translator is constructed, every verb of the cache stays
\* in the cache in every step of every call and every saveCache goroutine.
C14_MonotonicCache ==
  [][phase = "running" => DOMAIN cache.m \subseteq DOMAIN cache'.m]_vars

\* The cache holds two verbs and a saveCache goroutine has written the file.
C14_Witness ==
  /\ phase = "running"
  /\ Cardinality(DOMAIN cache.m) >= 2
  /\ \E s \in Saves : saves[s] = "saved"

\* The verb does not end in ar, er or ir.
NotConjugable(v) == ~HasSuffix(v, <<"a", "r">>) /\ ~HasSuffix(v, <<"e", "r">>) /\ ~HasSuffix(v, <<"i", "r">>)

\* C16: for a verb that does not end in ar, er or ir the generator gives
\* the empty table, and when the scrape failed or extracted nothing the
\* call returns the empty table with a nil error.
C16_NonConjugable ==
  \A t \in Threads :
    (Resolved(t) /\ NotConjugable(verb[t])) =>
      /\ generateRuleBasedConjugations(verb[t]) = EmptyTable
      /\ (scraped[t].err \/ MapLen(scraped[t].conjugations) = 0) =>
           /\ conjugations[t] = EmptyTable
           /\ result[t].returned /\ ~result[t].err

\* A call for a verb of another ending has returned the empty table after
\* a fetch that failed.
C16_Witness ==
  \E t \in Threads :
    /\ result[t].returned /\ ~result[t].cached
    /\ NotConjugable(verb[t])
    /\ scraped[t].err
    /\ conjugations[t] = EmptyTable

\* C17: for every verb that ends in "ar", of any length, the generated
\* present tense is the six persons with the stem (the verb without its
\* last two bytes) followed by o, as, a, amos, ais with the accent, an.
C17_ArPresent ==
  \A t \in Threads :
    (pc[t] = "generated" /\ HasSuffix(verb[t], <<"a", "r">>)) =>
      /\ "present" \in DOMAIN conjugations[t]
      /\ conjugations[t]["present"] =
           Forms(SubSeq(verb[t], 1, Len(verb[t]) - 2),
                 <<<<"o">>, <<"a", "s">>, <<"a">>, <<"a", "m", "o", "s">>, <<"xC3", "x83", "xC2", "xA1", "i", "s">>, <<"a", "n">>>>)

\* C18: for every verb that ends in "er" or "ir", of any length, the
\* generated preterite has an entry for yo, and it ends in the accented i.
C18_ErIrPreterite ==
  \A t \in Threads :
    (pc[t] = "generated" /\ (HasSuffix(verb[t], <<"e", "r">>) \/ HasSuffix(verb[t], <<"i", "r">>))) =>
      /\ "preterite" \in DOMAIN conjugations[t]
      /\ <<"y", "o">> \in DOMAIN conjugations[t]["preterite"]
      /\ HasSuffix(conjugations[t]["preterite"][<<"y", "o">>], <<"xC3", "x83", "xC2", "xAD">>)

\* C15: whenever the command line or the REPL has called GetConjugations,
\* the handler that called it had before translated the text from Spanish
\* with IsVerb = true.
C15_LookupOnlyAfterVerb ==
  (mode \in Modes /\ trigger.by # "none") => (trigger.from = "es" /\ trigger.isVerb)

\* The line is the expand command: the word alone, or followed by a verb.
IsExpand(line) ==
  LET lower == ToLower(TrimSpace(line))
  IN  lower = <<"e", "x", "p", "a", "n", "d">> \/ HasPrefix(lower, <<"e", "x", "p", "a", "n", "d", " ">>)

\* The verb the expand command names; empty when it names none.
ExpandArg(line) == TrimSpace(Drop(TrimSpace(line), 6))

\* C19: when the last line the REPL has handled is an expand command, the
\* last call of GetConjugations was made by expandConjugations, for the verb
\* the command names or, when it names none and a verb has been translated
\* before, for the last translated verb.
C19_ExpandCommand ==
  (mode = "repl" /\ phase = "running" /\ IsExpand(command)) =>
    IF ExpandArg(command) # << >>
    THEN trigger.by = "expandConjugations" /\ trigger.verb = ExpandArg(command)
    ELSE lastTranslatedVerb # << >> =>
           (trigger.by = "expandConjugations" /\ trigger.verb = lastTranslatedVerb)

\* C20: the verb GetConjugations looks up and inserts is the argument
\* lowercased and trimmed, which normalizing again leaves as it is; every
\* key of the cache is such a verb; and a lookup for an argument whose
\* normalization has an entry returns that entry.
C20_VerbIdentity ==
  /\ []((mode \in Modes /\ trigger.by # "none") =>
          /\ verb[Main] = ToLower(TrimSpace(trigger.verb))
          /\ normalize(verb[Main]) = verb[Main])
  /\ [](mode \in Modes => \A v \in DOMAIN cache.m : ToLower(TrimSpace(v)) = v)
  /\ [][(mode \in Modes /\ pc[Main] = "reading" /\ pc'[Main] # "reading"
           /\ cacheHas(cache, ToLower(TrimSpace(trigger.verb)))) =>
          /\ result'[Main].returned /\ result'[Main].cached
          /\ conjugations'[Main] = cache.m[ToLower(TrimSpace(trigger.verb))]]_vars

\* After the line "Hablar" has been translated and its table stored, the
\* call for "hablar" of an expand command has returned the entry.
C20_Witness ==
  /\ mode = "repl"
  /\ lastTranslatedVerb = <<"H", "a", "b", "l", "a", "r">>
  /\ trigger.verb = <<"h", "a", "b", "l", "a", "r">>
  /\ pc[Main] = "returned" /\ result[Main].cached
  /\ conjugations[Main] = cache.m[<<"h", "a", "b", "l", "a", "r">>]

\* C21: merging the extracted and the generated table again gives the table
\* the pipeline resolved, and merging that table with the same generated
\* table gives it again: no cell changes and no key is added.
C21_MergeIdempotent ==
  \A t \in Threads :
    Resolved(t) =>
      LET generated == generateRuleBasedConjugations(verb[t])
          first == mergeConjugations(scraped[t].err, scraped[t].conjugations, generated)
      IN  /\ first = conjugations[t]
          /\ mergeConjugations(FALSE, conjugations[t], generated) = conjugations[t]
          /\ Cells(mergeConjugations(FALSE, conjugations[t], generated)) = Cells(first)

\* A merge has resolved a table that is neither the extracted nor the
\* generated one.
C21_Witness ==
  \E t \in Threads :
    /\ Resolved(t)
    /\ ~scraped[t].err
    /\ MapLen(scraped[t].conjugations) > 0
    /\ conjugations[t] # scraped[t].conjugations
    /\ conjugations[t] # generateRuleBasedConjugations(verb[t])

\* C22: once every saveCache goroutine that was started has ended and each
\* has written its bytes, the file is the serialization of the cache as it
\* is now, whatever the order of the puts and of the goroutines was.
C22_RacingFlushes ==
  ( /\ phase = "running"
    /\ \A s \in Saves : saves[s] \in {"none", "saved"}
    /\ \E s \in Saves : saves[s] = "saved" ) =>
      cacheFile = FileOf(marshalCache(cache))

\* Two puts of different tables have each started a saveCache goroutine and
\* both goroutines have written.
C22_Witness ==
  /\ phase = "running"
  /\ \A s \in Saves : saves[s] = "saved"
  /\ \A t \in Threads : Stored(t)
  /\ \E t, u \in Threads : conjugations[t] # conjugations[u]

\* C26: whatever the cache file held when New read it, the put of a resolved
\* table does not end the process, and after the call has returned a
\* non-empty table the lookup of the verb returns that table.
C26_UsableStore ==
  /\ phase # "panicked"
  /\ \A t \in Threads :
       (pc[t] = "returned" /\ MapLen(conjugations[t]) > 0) =>
         getCachedConjugations(cache, verb[t]) = MapOf(conjugations[t])

\* C27: once the cache holds a table for a verb, no step replaces that table
\* by a different one, and no thread fetches a verb the cache holds.
C27_EntryStability ==
  [][phase = "running" =>
       /\ \A v \in DOMAIN cache.m : cache'.m[v] = cache.m[v]
       /\ \A t \in Threads :
            (pc[t] = "fetch" /\ pc'[t] # "fetch") => ~cacheHas(cache, verb[t])]_vars

\* C28: when Translate reports IsVerb for the text a handler then gives to
\* GetConjugations, the table that call returns is not empty, whatever the
\* fetch answered.
C28_IsVerbHasTable ==
  ( /\ trigger.by # "none"
    /\ Translate(trigger.verb, "es", TRUE).isVerb
    /\ result[Main].returned ) =>
      MapLen(conjugations[Main]) > 0

\* A call for a text with IsVerb has returned after a fetch that failed.
C28_Witness ==
  /\ trigger.isVerb
  /\ result[Main].returned
  /\ ~result[Main].cached
  /\ scraped[Main].err

TenseVocabulary == {"present", "preterite", "imperfect", "conditional", "future"}

\* C25: every tense key of a table the pipeline resolves on a cache miss is
\* one of the five tense names, and every person key of it is one of the six
\* persons, whatever document the fetch returned.
C25_ClosedVocabulary ==
  \A t \in Threads :
    Resolved(t) =>
      /\ DOMAIN conjugations[t] \subseteq TenseVocabulary
      /\ \A tense \in DOMAIN conjugations[t] :
           DOMAIN conjugations[t][tense] \subseteq Range(persons)

\* The extraction of the first table of the document that has the class.
Primary(doc, v) ==
  LET marked == SelectSeq(doc, HasClass)
  IN  IF marked # << >> THEN extractFromSpanishDictTable(marked[1], v) ELSE EmptyTable

\* The tables of six or seven rows the extraction of which is not empty.
Qualifying(doc, v) ==
  {i \in 1..Len(doc) :
     /\ Len(doc[i].rows) \in {6, 7}
     /\ MapLen(extractConjugationsFromTable(doc[i], v)) > 0}

\* C23: when the first table with the class yields a table, that table is
\* returned whatever the other tables are; another table is returned only
\* when it yields nothing, and then it is the extraction of a table of six
\* or seven rows; when no such table yields data the empty table is returned.
C23_TwoStageOrder ==
  pc[1] = "parsed" =>
    LET primary == Primary(args.html, args.verb)
    IN  /\ MapLen(primary) > 0 => ret = primary
        /\ MapLen(primary) = 0 =>
             IF Qualifying(args.html, args.verb) = {} THEN ret = EmptyTable
             ELSE \E i \in Qualifying(args.html, args.verb) :
                    ret = extractConjugationsFromTable(args.html[i], args.verb)

\* A document has been parsed in which a table of six rows that yields data
\* comes before the table with the class, which yields data too.
C23_Witness ==
  /\ pc[1] = "parsed"
  /\ MapLen(Primary(args.html, args.verb)) > 0
  /\ \E i \in Qualifying(args.html, args.verb) :
       /\ ~args.html[i].class
       /\ ret # extractConjugationsFromTable(args.html[i], args.verb)

\* C29: when the first table with the class yields nothing and several
\* tables of six or seven rows yield data, the table returned is the
\* extraction of the first of them in document order.
C29_FirstMatchWins ==
  (pc[1] = "parsed" /\ MapLen(Primary(args.html, args.verb)) = 0) =>
    LET q == Qualifying(args.html, args.verb)
    IN  q # {} =>
          \E i \in q :
            /\ \A j \in q : i <= j
            /\ ret = extractConjugationsFromTable(args.html[i], args.verb)

\* The letters the candidates may be written with, in either case: a to z
\* and the seven accented letters, each as its bytes.
SpanishLetters ==
  {<<c>> : c \in Range(LowerAscii) \cup Range(UpperAscii)}
  \cup {<<"xC3", "xA1">>, <<"xC3", "xA9">>, <<"xC3", "xAD">>, <<"xC3", "xB3">>, <<"xC3", "xBA">>, <<"xC3", "xBC">>, <<"xC3", "xB1">>, <<"xC3", "x81">>, <<"xC3", "x89">>, <<"xC3", "x8D">>, <<"xC3", "x93">>, <<"xC3", "x9A">>, <<"xC3", "x9C">>, <<"xC3", "x91">>}

\* The lead bytes of the two-byte characters of the candidates.
LeadBytes == {"xC2", "xC3"}

\* The characters of a text, each as its bytes.
RECURSIVE Runes(_)
Runes(s) ==
  IF s = << >> THEN << >>
  ELSE IF Head(s) \in LeadBytes /\ Len(s) >= 2 THEN <<SubSeq(s, 1, 2)>> \o Runes(Drop(s, 2))
  ELSE <<<<Head(s)>>>> \o Runes(Tail(s))

\* C24: isValidConjugation returns false for the empty candidate, for one of
\* fewer than 2 or more than 20 characters, for one that contains "http",
\* "@" or "#", and for one with a character that is not a letter a to z or
\* an accented letter of Spanish in either case; it accepts "caminamos" and
\* "fui".
C24_ValidatorDecision ==
  pc[1] = "validated" =>
    LET text == args.text
        runes == Runes(text)
    IN  /\ ( \/ text = << >>
             \/ Len(runes) < 2
             \/ Len(runes) > MaxConjugationLen
             \/ Contains(text, <<"h", "t", "t", "p">>) \/ Contains(text, <<"@">>) \/ Contains(text, <<"#">>)
             \/ \E k \in 1..Len(runes) : runes[k] \notin SpanishLetters ) => ret = FALSE
        /\ text \in {<<"c", "a", "m", "i", "n", "a", "m", "o", "s">>, <<"f", "u", "i">>} => ret = TRUE

\* The process has ended, by os.Exit or by a panic.
Ended == phase \in {"exited", "panicked"}

InCall(t) == pc[t] \notin {"idle", "returned"}

\* C30: under fair scheduling every call of GetConjugations that has begun
\* returns and every saveCache goroutine that was started ends, unless the
\* process ends first: no put and no saveCache goroutine waits for ever for
\* the lock.
C30_DeadlockFreedom ==
  /\ \A t \in Threads : [](InCall(t) => <>(pc[t] = "returned" \/ Ended))
  /\ \A s \in Saves :
       [](saves[s] = "started" => <>(saves[s] \in {"saved", "gaveUp"} \/ Ended))

\* A put holds the write lock after it has started its saveCache goroutine,
\* and another caller is inside GetConjugations.
C30_Witness ==
  \E t \in Threads, s \in Saves :
    /\ pc[t] = "stored"
    /\ cacheMux.writer = Caller(t)
    /\ saves[s] = "started"
    /\ \E u \in Threads \ {t} : InCall(u)

====
